---- MODULE Spec2Model ----
(***************************************************************************)
(* Model of src/api/client.py: the retry loop of fetch_posts and the       *)
(* generator fetch_post_paginated, run against a scripted HTTP transport.  *)
(*                                                                         *)
(* Python resolves a name at the moment the statement that reads it runs.  *)
(* A local that is read before any assignment raises UnboundLocalError, a  *)
(* name that is neither a local nor a module global nor a builtin raises   *)
(* NameError, and a missing attribute raises AttributeError.  None of      *)
(* these is a requests.exceptions.RequestException, so none of them is     *)
(* caught by the handlers of lines 41 and 95: they leave the function.     *)
(* The model keeps the binding state of every local it reads.              *)
(***************************************************************************)
EXTENDS Integers, Sequences, FiniteSets, TLC

\* ------------------------------------------------------------ constants
MAX_RETRIES == 3
INITIAL_BACKOFF == 1
MAX_BACKOFF == 8

\* ------------------------------------------------------------ bounds
\* pages of the scripted paginated endpoint, and records per page
MaxPages == 2
MaxPageLen == 2
\* largest page_size a caller passes (the smallest is -1)
MaxPageSize == 2
\* next() calls one consumer makes on one generator
MaxPulls == 6
\* setup_logging calls the application makes
MaxSetupCalls == 3

\* ------------------------------------------------------------ values
\* a local variable is a cell: empty while unbound, <<v>> once assigned
Unbound == <<>>
Bound(v) == <<v>>
Val(cell) == cell[1]

\* What the transport does with one GET: an HTTP response with a status, or
\* no response at all (connection failure or timeout: requests.get raises a
\* RequestException that is not an HTTPError).
Http(s) == [kind |-> "http", status |-> s]
Net(k) == [kind |-> k, status |-> 0]
NoFault == [kind |-> "none", status |-> 0]

ScriptOutcomes == {Http(200), Net("ConnectionError"), Http(404), Http(503)}

\* the transport scripts of one fetch_posts call: one outcome per GET
Scripts == [1..MAX_RETRIES -> ScriptOutcomes]

\* the scripted pages: n non-empty pages, every later page empty
PageScripts == UNION {[1..n -> 1..MaxPageLen] : n \in 0..MaxPages}

PageSizes == (-1)..MaxPageSize

\* the faults one attempt can end in, for the handler of lines 41-57
NetworkFaults == {Net("ConnectionError"), Net("Timeout")}
HttpStatuses == 400..599
Faults == NetworkFaults \cup {Http(s) : s \in HttpStatuses}

VARIABLES
    script,       \* input: transport outcome of the i-th GET of fetch_posts
    pc,           \* fetch_posts: "idle", "L25", "L26", "done"
    attempts,     \* fetch_posts local `attempts`
    attempt,      \* fetch_posts local `attempt`
    backoff,      \* fetch_posts local `backoff`
    invocations,  \* requests.get calls made by fetch_posts
    sleeps,       \* arguments of the time.sleep calls of fetch_posts
    result,       \* how fetch_posts ended: "none", "payload", or the exception
    pages,        \* input: sizes of the non-empty pages of the endpoint
    failPage,     \* input: page whose GETs fail retryably (0: none)
    failTimes,    \* input: GETs of failPage that fail (0: every one)
    page_size,    \* input: argument of fetch_post_paginated
    gen,          \* generator: "nocall", "created", "suspended", "finished"
    page,         \* generator local `page`
    data,         \* generator local `data`: the page being yielded
    idx,          \* position of the last yielded record in `data`
    requests,     \* params of the GETs sent by the generator
    yielded,      \* records the generator has yielded
    raised,       \* what the last next() raised: "none" or the exception
    ended,        \* how the generator body ended: "none", "return", exception
    pulls,        \* next() calls made
    fault,        \* handler probe: the outcome of one failed attempt
    verdict,      \* handler probe: what lines 30-57 make of it
    LOGGING_CONFIGURED,  \* logger.py global _LOGGING_CONFIGURED
    root_handlers,       \* file handlers setup_logging added to the root logger
    root_level,          \* level of the root logger
    setup_calls          \* setup_logging calls made

fetchVars == <<pc, attempts, attempt, backoff, invocations, sleeps, result>>
genVars == <<gen, page, data, idx, requests, yielded, raised, ended, pulls>>
inputVars == <<script, pages, failPage, failTimes, page_size>>
probeVars == <<fault, verdict>>
logVars == <<LOGGING_CONFIGURED, root_handlers, root_level, setup_calls>>
vars == <<inputVars, fetchVars, genVars, probeVars, logVars>>

Min(a, b) == IF a <= b THEN a ELSE b

\* ------------------------------------------------------------ names
\* names bound at module level of client.py when a function body runs
ModuleGlobals ==
    {"requests", "logging", "time", "ExternalAPIError", "logger", "BASE_URL",
     "MAX_RETRIES", "INITIAL_BACKOFF", "MAX_BACKOFF", "fetch_posts",
     "fetch_post_paginated"}

\* names fetch_post_paginated assigns (its parameter included)
PaginatedLocals ==
    {"page_size", "page", "timeout", "params", "response", "data", "e", "record"}

\* variant: line 91 passes a name the module defines
PaginatedUrlNameDefined == "BASE_URL"

\* the name line 91 passes to requests.get as the URL
PaginatedUrlName == "url"

\* submodules and functions of the requests package
RequestsAttrs == {"get", "exceptions"}

\* the attribute of `requests` line 33 reads to build the 429 error
RateLimitErrorModule == "exception"

\* attributes of a requests.exceptions.HTTPError instance
HTTPErrorAttrs == {"response", "request", "args"}

\* the attribute of the caught exception line 53 reads
HandlerResponseAttr == "repsonse"

\* ------------------------------------------------------------ transport
\* the outcome of the n-th GET of fetch_posts
Respond(n) == script[Min(n, MAX_RETRIES)]

\* the records of page p of the paginated endpoint
PageData(p) ==
    IF p \in 1..Len(pages) THEN [i \in 1..pages[p] |-> [page |-> p, idx |-> i]]
    ELSE <<>>

\* GETs of page p the generator has sent so far
RequestsOf(p) == Cardinality({i \in 1..Len(requests) : requests[i]._page = p})

\* the outcome of the next GET of page p
RespondPage(p) ==
    IF p = failPage /\ (failTimes = 0 \/ RequestsOf(p) < failTimes)
      THEN Http(503) ELSE Http(200)

\* response.raise_for_status(): HTTPError for 4xx and 5xx
RaisesForStatus(status) == 400 <= status /\ status < 600

\* ------------------------------------------------------------ fetch_posts
\* lines 30-38, the try body on transport outcome o: the exception it
\* raises, or "none" when it returns response.json()
RaisedByTry(o) ==
    IF o.kind # "http" THEN o.kind
    ELSE IF o.status = 429
         THEN IF RateLimitErrorModule \in RequestsAttrs
                THEN "HTTPError" ELSE "AttributeError"
    ELSE IF RaisesForStatus(o.status) THEN "HTTPError"
    ELSE "none"

\* lines 41-57, the handler on a caught RequestException: "retryable",
\* "rejected", or the exception the handler itself raises
Classify(exc, status) ==
    IF exc = "HTTPError"
      THEN IF HandlerResponseAttr \notin HTTPErrorAttrs THEN "AttributeError"
           ELSE IF status # 0 /\ 400 <= status /\ status < 500 /\ status # 429
                  THEN "rejected" ELSE "retryable"
      ELSE "retryable"

\* lines 30-57 on one transport outcome
AttemptVerdict(o) ==
    LET exc == RaisedByTry(o)
    IN IF exc \in {"none", "AttributeError"} THEN exc ELSE Classify(exc, o.status)

Rejected == "ExternalAPIError: External API rejected the request"
Exhausted == "ExternalAPIError: External API failed after retries"

\* variant: the page cursor is a module global that every fetch resets
fetch_posts_call_shared_cursor ==
    /\ pc = "idle"
    /\ pc' = "L25"
    /\ attempts' = Bound(0)
    /\ page' = Bound(1)
    /\ UNCHANGED <<attempt, backoff, invocations, sleeps, result>>
    /\ UNCHANGED <<gen, data, idx, requests, yielded, raised, ended, pulls>>
    /\ UNCHANGED <<inputVars, probeVars, logVars>>

\* lines 18-23: the call binds url, timeout and attempts, and nothing else
fetch_posts_call ==
    /\ pc = "idle"
    /\ pc' = "L25"
    /\ attempts' = Bound(0)
    /\ UNCHANGED <<attempt, backoff, invocations, sleeps, result>>
    /\ UNCHANGED <<inputVars, genVars, probeVars, logVars>>

\* line 25: while attempts < MAX_RETRIES; falling out of the loop returns None
fetch_posts_guard ==
    /\ pc = "L25"
    /\ IF Val(attempts) < MAX_RETRIES
         THEN pc' = "L26" /\ result' = result
         ELSE pc' = "done" /\ result' = "None"
    /\ UNCHANGED <<attempts, attempt, backoff, invocations, sleeps>>
    /\ UNCHANGED <<inputVars, genVars, probeVars, logVars>>

\* lines 26-70, one iteration of the loop.  Line 26, attempt += 1, reads the
\* local `attempt` before it writes it.
fetch_posts_iteration ==
    /\ pc = "L26"
    /\ IF attempt = Unbound
         THEN /\ pc' = "done"
              /\ result' = "UnboundLocalError"
              /\ UNCHANGED <<attempt, backoff, invocations, sleeps>>
         ELSE LET a == Val(attempt) + 1
                  b == INITIAL_BACKOFF
                  v == AttemptVerdict(Respond(invocations + 1))
                  end == CASE v = "none" -> "payload"
                           [] v = "AttributeError" -> "AttributeError"
                           [] v = "rejected" -> Rejected
                           [] v = "retryable" /\ a >= MAX_RETRIES -> Exhausted
                           [] OTHER -> "none"
              IN /\ attempt' = Bound(a)
                 /\ invocations' = invocations + 1
                 /\ result' = end
                 /\ IF end = "none"
                      THEN /\ sleeps' = Append(sleeps, b)
                           /\ backoff' = Bound(Min(b * 2, MAX_BACKOFF))
                           /\ pc' = "L25"
                      ELSE /\ sleeps' = sleeps
                           /\ backoff' = Bound(b)
                           /\ pc' = "done"
    /\ UNCHANGED attempts
    /\ UNCHANGED <<inputVars, genVars, probeVars, logVars>>

\* ------------------------------------------------------------ generator
\* variant: the first page is requested when the sequence is created
fetch_post_paginated_call_eager ==
    /\ gen = "nocall"
    /\ gen' = "created"
    /\ requests' = Append(requests, [_page |-> 1, _limit |-> page_size])
    /\ UNCHANGED <<page, data, idx, yielded, raised, ended, pulls>>
    /\ UNCHANGED <<inputVars, fetchVars, probeVars, logVars>>

\* line 77: calling a generator function runs none of its body
fetch_post_paginated_call ==
    /\ gen = "nocall"
    /\ gen' = "created"
    /\ UNCHANGED <<page, data, idx, requests, yielded, raised, ended, pulls>>
    /\ UNCHANGED <<inputVars, fetchVars, probeVars, logVars>>

PageFailed == "ExternalAPIError: API call failed"

\* lines 81-108 for page p: the arguments of requests.get are evaluated
\* (the URL name is looked up) before the GET is sent
FetchPage(p) ==
    /\ page' = Bound(p)
    /\ IF PaginatedUrlName \notin PaginatedLocals \cup ModuleGlobals
         THEN /\ gen' = "finished"
              /\ raised' = "NameError"
              /\ ended' = "NameError"
              /\ UNCHANGED <<data, idx, requests, yielded>>
         ELSE /\ requests' = Append(requests, [_page |-> p, _limit |-> page_size])
              /\ IF RaisesForStatus(RespondPage(p).status)
                   THEN /\ gen' = "finished"
                        /\ raised' = PageFailed
                        /\ ended' = PageFailed
                        /\ UNCHANGED <<data, idx, yielded>>
                   ELSE IF PageData(p) = <<>>
                   THEN /\ gen' = "finished"
                        /\ raised' = "StopIteration"
                        /\ ended' = "return"
                        /\ data' = <<>>
                        /\ UNCHANGED <<idx, yielded>>
                   ELSE /\ gen' = "suspended"
                        /\ raised' = "none"
                        /\ ended' = ended
                        /\ data' = PageData(p)
                        /\ idx' = 1
                        /\ yielded' = Append(yielded, PageData(p)[1])

\* next(generator): runs the body from where it stands to the next yield,
\* raise or return
generator_next ==
    /\ gen \in {"created", "suspended", "finished"}
    /\ pulls < MaxPulls
    /\ pulls' = pulls + 1
    /\ CASE gen = "created" -> FetchPage(1)
         [] gen = "suspended" /\ idx < Len(data) ->
              /\ idx' = idx + 1
              /\ yielded' = Append(yielded, data[idx + 1])
              /\ raised' = "none"
              /\ UNCHANGED <<gen, page, data, requests, ended>>
         [] gen = "suspended" /\ idx >= Len(data) -> FetchPage(Val(page) + 1)
         [] gen = "finished" ->
              /\ raised' = "StopIteration"
              /\ UNCHANGED <<gen, page, data, idx, requests, yielded, ended>>
    /\ UNCHANGED <<inputVars, fetchVars, probeVars, logVars>>

\* ------------------------------------------------------------ setup_logging
\* variant: the guard of line 16 is missing
NeverConfigured == FALSE

\* logger.py line 16: if _LOGGING_CONFIGURED: return
AlreadyConfigured == LOGGING_CONFIGURED

\* logger.py lines 13-34: one call of setup_logging
setup_logging ==
    /\ setup_calls < MaxSetupCalls
    /\ setup_calls' = setup_calls + 1
    /\ IF AlreadyConfigured
         THEN UNCHANGED <<LOGGING_CONFIGURED, root_handlers, root_level>>
         ELSE /\ root_handlers' = root_handlers + 1
              /\ root_level' = "INFO"
              /\ LOGGING_CONFIGURED' = TRUE
    /\ UNCHANGED <<inputVars, fetchVars, genVars, probeVars>>

\* ------------------------------------------------------------ handler probe
\* lines 30-57 applied to the outcome of one failed attempt
classify_attempt ==
    /\ verdict = "pending"
    /\ fault # NoFault
    /\ verdict' = AttemptVerdict(fault)
    /\ UNCHANGED <<fault, inputVars, fetchVars, genVars, logVars>>

\* ------------------------------------------------------------ specification
Init ==
    /\ script \in Scripts
    /\ pages \in PageScripts
    /\ failPage \in 0..(MaxPages + 1)
    /\ failTimes \in (IF failPage = 0 THEN {0} ELSE 0..(MAX_RETRIES - 1))
    /\ page_size \in PageSizes
    /\ pc = "idle"
    /\ attempts = Unbound
    /\ attempt = Unbound
    /\ backoff = Unbound
    /\ invocations = 0
    /\ sleeps = <<>>
    /\ result = "none"
    /\ gen = "nocall"
    /\ page = Unbound
    /\ data = <<>>
    /\ idx = 0
    /\ requests = <<>>
    /\ yielded = <<>>
    /\ raised = "none"
    /\ ended = "none"
    /\ pulls = 0
    /\ fault = NoFault
    /\ verdict = "pending"
    /\ LOGGING_CONFIGURED = FALSE
    /\ root_handlers = 0
    /\ root_level = "WARNING"
    /\ setup_calls = 0

Next ==
    \/ fetch_posts_call
    \/ fetch_posts_guard
    \/ fetch_posts_iteration
    \/ fetch_post_paginated_call
    \/ generator_next

Spec == Init /\ [][Next]_vars

\* the paginated fetch against every scripted endpoint, beside one
\* fetch_posts call whose transport answers 200
InitPaginated ==
    /\ Init
    /\ script = [i \in 1..MAX_RETRIES |-> Http(200)]

SpecPaginated == InitPaginated /\ [][Next]_vars

\* the application: setup_logging calls among the fetches of main.py
InitLogging ==
    /\ Init
    /\ pages = <<>>
    /\ failPage = 0

NextLogging ==
    \/ Next
    \/ setup_logging

SpecLogging == InitLogging /\ [][NextLogging]_vars

\* the handler of lines 30-57 taken alone, on every fault of one attempt
InitClassify ==
    /\ fault \in Faults
    /\ verdict = "pending"
    /\ script = [i \in 1..MAX_RETRIES |-> Http(200)]
    /\ pages = <<>>
    /\ failPage = 0
    /\ failTimes = 0
    /\ page_size = 1
    /\ pc = "idle"
    /\ attempts = Unbound
    /\ attempt = Unbound
    /\ backoff = Unbound
    /\ invocations = 0
    /\ sleeps = <<>>
    /\ result = "none"
    /\ gen = "nocall"
    /\ page = Unbound
    /\ data = <<>>
    /\ idx = 0
    /\ requests = <<>>
    /\ yielded = <<>>
    /\ raised = "none"
    /\ ended = "none"
    /\ pulls = 0
    /\ LOGGING_CONFIGURED = FALSE
    /\ root_handlers = 0
    /\ root_level = "WARNING"
    /\ setup_calls = 0

NextClassify == classify_attempt

SpecClassify == InitClassify /\ [][NextClassify]_vars

\* ------------------------------------------------------------ properties
\* the classification section 4.1 of the specification asks for
SpecRetryable(o) == o.kind # "http" \/ o.status = 429 \/ o.status >= 500
Succeeds(o) == o.kind = "http" /\ o.status < 400

\* the script fails retryably exactly k times and then succeeds
FailsThenSucceeds(k) ==
    /\ \A i \in 1..k : ~Succeeds(script[i]) /\ SpecRetryable(script[i])
    /\ Succeeds(script[k + 1])

\* the script fails retryably on every attempt
AlwaysFailsRetryably ==
    \A i \in 1..MAX_RETRIES : ~Succeeds(script[i]) /\ SpecRetryable(script[i])

RECURSIVE Pow2(_)
Pow2(n) == IF n = 0 THEN 1 ELSE 2 * Pow2(n - 1)

\* the first k waits of the capped doubling sequence
ExpectedWaits(k) == [i \in 1..k |-> Min(INITIAL_BACKOFF * Pow2(i - 1), MAX_BACKOFF)]

\* the records of pages 1..n, in page order and in within-page order
RECURSIVE RecordsUpTo(_)
RecordsUpTo(n) == IF n = 0 THEN <<>> ELSE RecordsUpTo(n - 1) \o PageData(n)

\* C1: when the operation fails retryably exactly k < max_retries times and
\* then succeeds, the finished call has returned the success payload after
\* exactly k+1 invocations of the operation.
C1_RetriesThenReturnsPayload ==
    \A k \in 0..(MAX_RETRIES - 1) :
        (pc = "done" /\ FailsThenSucceeds(k))
            => (result = "payload" /\ invocations = k + 1)

\* C2: when the operation fails retryably on every attempt, the finished call
\* has invoked it exactly max_retries times and failed with the
\* retries-exhausted ExternalAPIError.
C2_ExhaustsAfterMaxRetries ==
    (pc = "done" /\ AlwaysFailsRetryably)
        => (invocations = MAX_RETRIES /\ result = Exhausted)

\* C3: when the first attempt fails with a non-retryable fault (HTTP 4xx other
\* than 429), the finished call has failed with the 'rejected'
\* ExternalAPIError after exactly one invocation and without any sleep.
C3_NonRetryableFailsAtOnce ==
    (pc = "done" /\ ~Succeeds(script[1]) /\ ~SpecRetryable(script[1]))
        => (result = Rejected /\ invocations = 1 /\ sleeps = <<>>)

\* C4: the classification of one failed attempt is retryable for every
\* network-level failure, for HTTP 429 and for every status >= 500, and not
\* retryable for every status in [400,500) other than 429.
C4_ClassificationOfOneFault ==
    verdict # "pending"
        => verdict = (IF SpecRetryable(fault) THEN "retryable" ELSE "rejected")

\* C5: the waits passed to sleep in one retry operation are the capped
\* doubling sequence: an operation that fails retryably k times and then
\* succeeds has slept min(initial_backoff * 2^(i-1), max_backoff) for
\* i = 1..k, in that order.
C5_WaitsDoubleUpToCap ==
    \A k \in 0..(MAX_RETRIES - 1) :
        (pc = "done" /\ FailsThenSucceeds(k)) => sleeps = ExpectedWaits(k)

\* C6: in every state of the retry loop the operation has a current backoff,
\* set once at the start of the operation, and it never exceeds max_backoff
\* (nor falls below initial_backoff, its starting value).
C6_BackoffSetAndCapped ==
    pc \in {"L25", "L26"}
        => (backoff # Unbound /\ Val(backoff) \in INITIAL_BACKOFF..MAX_BACKOFF)

\* C7: the counter the loop guard of line 25 tests is the one the iteration
\* increments, and the operation is never invoked more than max_retries
\* times: every step that runs the increment of line 26 raises `attempts` by
\* one, and invocations never exceeds max_retries.
C7_GuardCounterIsIncremented ==
    [][/\ (pc = "L26" /\ pc' # "L26") => attempts' = Bound(Val(attempts) + 1)
       /\ invocations' <= MAX_RETRIES]_vars

\* C8: against pages 1..n non-empty and page n+1 empty, the fully consumed
\* sequence has yielded exactly the records of pages 1..n in order and has
\* sent exactly n+1 page requests, _page = 1..n+1, each with
\* _limit = page_size.
C8_YieldsAllPagesInOrder ==
    (gen = "finished" /\ failPage = 0 /\ page_size > 0)
        => /\ yielded = RecordsUpTo(Len(pages))
           /\ requests = [p \in 1..(Len(pages) + 1) |->
                             [_page |-> p, _limit |-> page_size]]

\* C9: the sequence ends exactly when a page returns zero records: whenever
\* it has ended against a transport without faults, the last page request it
\* sent was answered with an empty page.
C9_EndsOnlyOnEmptyPage ==
    (gen = "finished" /\ failPage = 0 /\ page_size > 0)
        => /\ requests # <<>>
           /\ PageData(requests[Len(requests)]._page) = <<>>

\* C10: when page p fails retryably on every attempt, the sequence has
\* yielded exactly the records of pages 1..p-1 when it ends, it ends with the
\* ExternalAPIError, and page p has been requested exactly max_retries times.
C10_FaultSurfacesAfterEarlierPages ==
    (gen = "finished" /\ failPage \in 1..(Len(pages) + 1) /\ failTimes = 0
        /\ page_size > 0)
        => /\ yielded = RecordsUpTo(failPage - 1)
           /\ ended = PageFailed
           /\ RequestsOf(failPage) = MAX_RETRIES

\* C11: a paginated fetch called with page_size <= 0 sends no page request,
\* and the first pull on it ends the sequence with a failure.
C11_NonPositivePageSizeFailsBeforeRequest ==
    page_size <= 0
        => /\ requests = <<>>
           /\ pulls >= 1 => (gen = "finished" /\ ended \notin {"none", "return"})

\* a sequence created with page_size <= 0 has been pulled and has failed
C11_Witness ==
    page_size <= 0 /\ pulls >= 1 /\ gen = "finished" /\ ended = "NameError"

\* C12: every failure that leaves fetch_posts or the paginated sequence is
\* the ExternalAPIError: a finished call has returned its payload or raised
\* ExternalAPIError, a finished sequence has returned or raised
\* ExternalAPIError.
C12_OnlyExternalAPIErrorEscapes ==
    /\ pc = "done" => result \in {"payload", Rejected, Exhausted}
    /\ gen = "finished" => ended \in {"return", PageFailed}

C14_PageRetriedThenContinues ==
    (gen = "finished" /\ failPage \in 1..(Len(pages) + 1) /\ failTimes >= 1
        /\ page_size > 0)
        => /\ yielded = RecordsUpTo(Len(pages))
           /\ ended = "return"
           /\ RequestsOf(failPage) = failTimes + 1

\* C15: sleeps happen only between a failed retryable attempt and the next
\* attempt, so a finished retry loop has slept exactly once less than it has
\* invoked the operation.
C15_SleepsBetweenAttempts ==
    pc = "done" => Len(sleeps) = invocations - 1

\* C16: the paginated sequence is pull-driven and forward-only: no request
\* has been sent before the first pull, a request is sent only by a pull made
\* when the sequence is new or every record of the current page has been
\* consumed, and the requested page number never decreases.
C16_PullDrivenForwardOnly ==
    /\ [](gen \in {"nocall", "created"} => requests = <<>>)
    /\ [][requests' # requests =>
            /\ pulls' = pulls + 1
            /\ gen = "created" \/ (gen = "suspended" /\ idx = Len(data))
            /\ Len(requests') = Len(requests) + 1
            /\ \A i \in 1..Len(requests) :
                   requests[i]._page <= requests'[Len(requests')]._page]_vars

\* the sequence has been created and not yet pulled
C16_Witness == gen = "created" /\ pulls = 0 /\ requests = <<>>

\* C17: after one or more calls of setup_logging the root logger has exactly
\* one file handler added by it, its level is INFO and _LOGGING_CONFIGURED is
\* set, however many calls were made.
C17_SetupLoggingIdempotent ==
    setup_calls >= 1
        => (root_handlers = 1 /\ root_level = "INFO" /\ LOGGING_CONFIGURED)

\* setup_logging has been called more than once
C17_Witness == setup_calls >= 2 /\ root_handlers = 1

====
